---- MODULE Spec2Model ----
(***************************************************************************)
(* Loan Product Performance Dashboard (src/app.py).                        *)
(*                                                                         *)
(* The Streamlit script is executed top to bottom every time the file      *)
(* uploader changes.  One execution is one action (RunWithFile, or        *)
(* RunWithoutFile when the uploader is empty): it loads                    *)
(* the uploaded CSV, checks the required columns, cleans three columns and *)
(* computes four tables.  Nothing survives an execution except the         *)
(* uploader's own widget state.                                            *)
(*                                                                         *)
(* Modelling of values                                                     *)
(*   text cell      a sequence of one-character strings; the empty CSV     *)
(*                  field (pandas NaN) is the empty sequence               *)
(*   date cell      the dash-separated numeric fields of the text,         *)
(*                  <<dd, mm, yyyy>> when well formed                      *)
(*   number         [nan |-> BOOLEAN, v |-> Int]  (float NaN kept apart)   *)
(*   NaT            the empty sequence in a date/period position           *)
(* Amounts are integers, so sums are exact.  Text semantics follow pandas  *)
(* before 3.0, where astype(str) turns a missing value into "nan".         *)
(***************************************************************************)
EXTENDS Integers, Sequences, FiniteSets, TLC

VARIABLES disk, uploaded_file, shown, missing_columns, df, product_count,
          product_amount, monthly_summary, total_loans_disbursed,
          product_stats, log

vars == <<disk, uploaded_file, shown, missing_columns, df, product_count,
          product_amount, monthly_summary, total_loans_disbursed,
          product_stats, log>>

(* ------------------------------ bounds -------------------------------- *)
MaxRows == 2
MaxRuns == 3

(* ------------------------- generic sequence helpers -------------------- *)
RECURSIVE SumSeq(_)
SumSeq(s) == IF s = <<>> THEN 0 ELSE s[1] + SumSeq(Tail(s))

RECURSIVE Concat(_)
Concat(ss) == IF ss = <<>> THEN <<>> ELSE ss[1] \o Concat(Tail(ss))

Range(s) == {s[i] : i \in DOMAIN s}

Abs(x) == IF x < 0 THEN -x ELSE x

(* --------------------------- text primitives --------------------------- *)
\* Code points of the characters the model's cells are written with.
Code(c) ==
    CASE c = "\t" -> 9   [] c = " " -> 32  [] c = "-" -> 45
      [] c = "0" -> 48   [] c = "5" -> 53
      [] c = "A" -> 65   [] c = "B" -> 66
      [] c = "a" -> 97   [] c = "b" -> 98  [] c = "n" -> 110
      [] c = "x" -> 120  [] OTHER -> 0

IsSpace(c) == c \in {" ", "\t"}
IsUpper(c) == c \in {"A", "B"}
IsDigit(c) == c \in {"0", "5"}
DigitVal(c) == IF c = "5" THEN 5 ELSE 0

\* str.lower() on one character
LowerChar(c) == CASE c = "A" -> "a" [] c = "B" -> "b" [] OTHER -> c

\* str.lower()
Lower(s) == [i \in DOMAIN s |-> LowerChar(s[i])]

\* str.strip(): remove leading and trailing whitespace
Strip(s) ==
    LET keep == {i \in DOMAIN s : ~IsSpace(s[i])}
    IN IF keep = {} THEN <<>>
       ELSE LET lo == CHOOSE i \in keep : \A j \in keep : i <= j
                hi == CHOOSE i \in keep : \A j \in keep : j <= i
            IN SubSeq(s, lo, hi)

\* Python's ordering of str: lexicographic by code point
RECURSIVE TextLess(_, _)
TextLess(a, b) ==
    IF b = <<>> THEN FALSE
    ELSE IF a = <<>> THEN TRUE
    ELSE IF Code(a[1]) # Code(b[1]) THEN Code(a[1]) < Code(b[1])
    ELSE TextLess(Tail(a), Tail(b))

\* a finite set of texts as the sequence sorted ascending (group-by key order)
RECURSIVE SortTexts(_)
SortTexts(S) ==
    IF S = {} THEN <<>>
    ELSE LET m == CHOOSE x \in S : \A y \in S \ {x} : TextLess(x, y)
         IN <<m>> \o SortTexts(S \ {m})

\* Series.unique(): distinct values in order of first appearance
RECURSIVE Unique(_)
Unique(s) ==
    IF s = <<>> THEN <<>>
    ELSE LET r == Unique(SubSeq(s, 1, Len(s) - 1))
             x == s[Len(s)]
         IN IF x \in Range(r) THEN r ELSE Append(r, x)

(* ------------------------------ numbers -------------------------------- *)
NaN == [nan |-> TRUE, v |-> 0]
Num(n) == [nan |-> FALSE, v |-> n]
\* value under skipna aggregation (NaN contributes nothing)
Val(x) == IF x.nan THEN 0 ELSE x.v

RECURSIVE DigitsVal(_)
DigitsVal(s) ==
    IF s = <<>> THEN 0 ELSE DigitsVal(SubSeq(s, 1, Len(s) - 1)) * 10 + DigitVal(s[Len(s)])

AllDigits(s) == s # <<>> /\ \A i \in DOMAIN s : IsDigit(s[i])

\* pd.to_numeric(cell, errors="coerce"): optional minus sign and digits, else NaN
to_numeric(cell) ==
    IF AllDigits(cell) THEN Num(DigitsVal(cell))
    ELSE IF cell # <<>> /\ cell[1] = "-" /\ AllDigits(Tail(cell))
         THEN Num(-DigitsVal(Tail(cell)))
    ELSE NaN

fillna(x, d) == IF x.nan THEN Num(d) ELSE x

(* ------------------------------ rounding ------------------------------- *)
\* n/d (n >= 0, d > 0) rounded to the nearest integer, exact ties to even:
\* what "{:.2f}".format does with an exactly representable value
RoundHalfEven(n, d) ==
    LET q == n \div d
        r == n % d
    IN IF 2 * r < d THEN q
       ELSE IF 2 * r > d THEN q + 1
       ELSE IF q % 2 = 0 THEN q ELSE q + 1

\* the thousands groups of a natural number, most significant first ("," separator)
RECURSIVE Groups(_)
Groups(w) == IF w < 1000 THEN <<w>> ELSE Groups(w \div 1000) \o <<w % 1000>>

FmtNaN == [neg |-> FALSE, groups |-> <<>>, frac |-> 0]

\* "{:,.2f}".format(n/d): sign, comma-separated whole part, two decimals;
\* d = 0 stands for a NaN value ("nan")
Fmt2f(n, d) ==
    IF d = 0 THEN FmtNaN
    ELSE LET cents == RoundHalfEven(Abs(n) * 100, d)
         IN [neg |-> n < 0, groups |-> Groups(cents \div 100), frac |-> cents % 100]

\* "{:.2f}%".format((x / t) * 100) for float division: a zero divisor gives
\* nan (0/0), inf or -inf (x/0), never an error
FmtPct(x, t) ==
    IF t = 0
    THEN [kind |-> IF x = 0 THEN "nan" ELSE IF x > 0 THEN "inf" ELSE "-inf",
          neg |-> FALSE, hundredths |-> 0]
    ELSE [kind |-> "num",
          neg |-> IF x = 0 THEN t < 0 ELSE (x < 0) # (t < 0),
          hundredths |-> RoundHalfEven(Abs(x) * 10000, Abs(t))]

(* ------------------------------- dates --------------------------------- *)
NaT == <<>>

IsLeap(y) == (y % 4 = 0 /\ y % 100 # 0) \/ y % 400 = 0

DaysInMonth(m, y) ==
    CASE m \in {4, 6, 9, 11} -> 30
      [] m = 2 -> IF IsLeap(y) THEN 29 ELSE 28
      [] OTHER -> 31

\* pd.to_datetime(cell, format="%d-%m-%Y", errors="coerce"): <<year, month, day>>
\* of a real calendar day inside the datetime64[ns] range, else NaT
\* (the partly representable edge years 1677 and 2262 are left out)
to_datetime(cell) ==
    IF /\ Len(cell) = 3
       /\ cell[3] \in 1678..2261
       /\ cell[2] \in 1..12
       /\ cell[1] >= 1 /\ cell[1] <= DaysInMonth(cell[2], cell[3])
    THEN <<cell[3], cell[2], cell[1]>>
    ELSE NaT

\* Series.dt.to_period("M")
to_period_M(d) == IF d = NaT THEN NaT ELSE <<d[1], d[2]>>

PeriodLess_MonthFirst(a, b) == a[2] < b[2] \/ (a[2] = b[2] /\ a[1] < b[1])

\* ordering of monthly periods: by year, then by month
PeriodLess(a, b) == a[1] < b[1] \/ (a[1] = b[1] /\ a[2] < b[2])

RECURSIVE SortPeriods(_)
SortPeriods(S) ==
    IF S = {} THEN <<>>
    ELSE LET m == CHOOSE x \in S : \A y \in S \ {x} : PeriodLess(x, y)
         IN <<m>> \o SortPeriods(S \ {m})

\* Period.astype(str): "YYYY-MM" as <<year, tens digit, unit digit of the month>>
PeriodStr(p) == <<p[1], p[2] \div 10, p[2] % 10>>

(* --------------------------- column validator -------------------------- *)
required_columns == <<"Loan_ID", "Loan_Amount", "Date_Granted", "Loan_Type">>

MissingColumns_FirstOnly(columns) ==
    LET all == SelectSeq(required_columns, LAMBDA col : col \notin columns)
    IN IF all = <<>> THEN all ELSE <<all[1]>>

\* [col for col in required_columns if col not in df.columns]
MissingColumns(columns) ==
    SelectSeq(required_columns, LAMBDA col : col \notin columns)

(* ------------------------------- cleaner ------------------------------- *)
CleanAmount_NoFill(cell) == to_numeric(cell)

\* pd.to_numeric(df["Loan_Amount"], errors="coerce").fillna(0)
CleanAmount(cell) == fillna(to_numeric(cell), 0)

\* astype(str) on one cell: a missing value becomes the text "nan"
AsStr(cell) == IF cell = <<>> THEN <<"n", "a", "n">> ELSE cell

\* df["Loan_Type"].astype(str).str.strip().str.lower()
NormalizeType(cell) == Lower(Strip(AsStr(cell)))

\* lines 55-61 on one row: the three columns are replaced, every other column
\* is left as loaded
CleanRow(r) ==
    [c \in DOMAIN r |->
        CASE c = "Date_Granted" -> to_datetime(r[c])
          [] c = "Loan_Amount" -> CleanAmount(r[c])
          [] c = "Loan_Type" -> NormalizeType(r[c])
          [] OTHER -> r[c]]

Clean_DropNaT(rows) ==
    SelectSeq([i \in DOMAIN rows |-> CleanRow(rows[i])],
              LAMBDA r : r["Date_Granted"] # NaT)

\* lines 55-61 on the frame: column-wise assignments, no row added or removed
Clean(rows) == [i \in DOMAIN rows |-> CleanRow(rows[i])]

\* df["Month"] = df["Date_Granted"].dt.to_period("M")
AddMonth(d) ==
    [i \in DOMAIN d |->
        [c \in DOMAIN d[i] \cup {"Month"} |->
            IF c = "Month" THEN to_period_M(d[i]["Date_Granted"]) ELSE d[i][c]]]

(* ----------------------------- aggregations ---------------------------- *)
Column(d, c) == [i \in DOMAIN d |-> d[i][c]]

\* the rows of one group
GroupRows(d, c, k) == SelectSeq(d, LAMBDA r : r[c] = k)

\* group-by keys of the Loan_Type column: distinct values, sorted
TypeKeys(d) == SortTexts(Range(Column(d, "Loan_Type")))

\* "count" of a column: the number of non-missing cells
CountNonNull(rows, c) == Len(SelectSeq(rows, LAMBDA r : r[c] # <<>>))

\* "sum" of the amounts (missing values skipped)
SumAmount(rows) == SumSeq([i \in DOMAIN rows |-> Val(rows[i]["Loan_Amount"])])

AllLoanTypes_NoUnique(d) == Column(d, "Loan_Type")

AllLoanTypes_Persist(d) ==
    Unique([i \in DOMAIN product_count |-> product_count[i].Loan_Type]
           \o Column(d, "Loan_Type"))

\* all_loan_types = df["Loan_Type"].unique()   (default_data has this one column)
AllLoanTypes(d) == Unique(Column(d, "Loan_Type"))

\* default_data.merge(right, on="Loan_Type", how="left"): every left key in left
\* order, with each matching right row, or one row of missing values
MergeLeft(left, right, col) ==
    Concat([i \in DOMAIN left |->
              LET m == SelectSeq(right, LAMBDA r : r.Loan_Type = left[i])
              IN IF m = <<>>
                 THEN <<[c \in {"Loan_Type", col} |->
                           IF c = "Loan_Type" THEN left[i] ELSE NaN]>>
                 ELSE m])

\* df.groupby("Loan_Type", as_index=False)["Loan_ID"].count()
GroupCount(d) ==
    LET keys == TypeKeys(d)
    IN [i \in DOMAIN keys |->
          [Loan_Type |-> keys[i],
           Count |-> Num(CountNonNull(GroupRows(d, "Loan_Type", keys[i]), "Loan_ID"))]]

\* lines 69-72
ProductCount(d) ==
    LET merged == MergeLeft(AllLoanTypes(d), GroupCount(d), "Count")
    IN [i \in DOMAIN merged |->
          [Loan_Type |-> merged[i].Loan_Type, Count |-> fillna(merged[i].Count, 0).v]]

GroupSum_Positive(d) ==
    LET keys == TypeKeys(d)
    IN [i \in DOMAIN keys |->
          [Loan_Type |-> keys[i],
           Total_Amount |->
              Num(SumAmount(SelectSeq(GroupRows(d, "Loan_Type", keys[i]),
                                      LAMBDA r : Val(r["Loan_Amount"]) > 0)))]]

\* df.groupby("Loan_Type", as_index=False)["Loan_Amount"].sum()
GroupSum(d) ==
    LET keys == TypeKeys(d)
    IN [i \in DOMAIN keys |->
          [Loan_Type |-> keys[i],
           Total_Amount |-> Num(SumAmount(GroupRows(d, "Loan_Type", keys[i])))]]

\* lines 83-86
ProductAmount(d) ==
    LET merged == MergeLeft(AllLoanTypes(d), GroupSum(d), "Total_Amount")
    IN [i \in DOMAIN merged |->
          [Loan_Type |-> merged[i].Loan_Type,
           Total_Amount |-> fillna(merged[i].Total_Amount, 0).v]]

\* lines 98-99 (d carries the Month column): rows without a month form no group
MonthlySummary(d) ==
    LET keys == SortPeriods(Range(Column(d, "Month")) \ {NaT})
    IN [i \in DOMAIN keys |->
          [Month |-> PeriodStr(keys[i]),
           Loan_Amount |-> SumAmount(GroupRows(d, "Month", keys[i]))]]

\* the non-missing amounts of a group
AmountValues(rows) ==
    LET present == SelectSeq(rows, LAMBDA r : ~r["Loan_Amount"].nan)
    IN [i \in DOMAIN present |-> present[i]["Loan_Amount"].v]

MaxOf(s) == CHOOSE x \in Range(s) : \A y \in Range(s) : y <= x
MinOf(s) == CHOOSE x \in Range(s) : \A y \in Range(s) : x <= y

\* lines 110-116: df.groupby("Loan_Type").agg(...).reset_index(), one row per
\* key in sorted key order; Avg_Amount is kept as the pair sum / number of values
ProductStatsAgg(d) ==
    LET keys == TypeKeys(d)
    IN [i \in DOMAIN keys |->
          LET g == GroupRows(d, "Loan_Type", keys[i])
              a == AmountValues(g)
          IN [Loan_Type |-> keys[i],
              Total_Loans |-> CountNonNull(g, "Loan_ID"),
              Total_Amount |-> SumSeq(a),
              Avg_Amount |-> <<SumSeq(a), Len(a)>>,
              Max_Amount |-> IF a = <<>> THEN <<0, 0>> ELSE <<MaxOf(a), 1>>,
              Min_Amount |-> IF a = <<>> THEN <<0, 0>> ELSE <<MinOf(a), 1>>]]

\* line 119: total_loans_disbursed = product_stats["Total_Amount"].sum()
TotalLoansDisbursed(agg) == SumSeq([i \in DOMAIN agg |-> agg[i].Total_Amount])

\* lines 120-127: portfolio share, then every numeric column rendered as text
ProductStats(agg) ==
    LET total == TotalLoansDisbursed(agg)
    IN [i \in DOMAIN agg |->
          [Loan_Type |-> agg[i].Loan_Type,
           Total_Loans |-> agg[i].Total_Loans,
           Total_Amount |-> Fmt2f(agg[i].Total_Amount, 1),
           Avg_Amount |-> Fmt2f(agg[i].Avg_Amount[1], agg[i].Avg_Amount[2]),
           Max_Amount |-> Fmt2f(agg[i].Max_Amount[1], agg[i].Max_Amount[2]),
           Min_Amount |-> Fmt2f(agg[i].Min_Amount[1], agg[i].Min_Amount[2]),
           Portfolio_Percentage |-> FmtPct(agg[i].Total_Amount, total)]]

(* ------------------------------ the script ----------------------------- *)
\* what one execution leaves when no file is uploaded (line 39 is false)
Idle ==
    [shown |-> {}, missing_columns |-> <<>>, df |-> <<>>, product_count |-> <<>>,
     product_amount |-> <<>>, monthly_summary |-> <<>>, total_loans_disbursed |-> 0,
     product_stats |-> <<>>]

\* lines 39-129 for one uploaded file f = [columns, rows]
Script(f) ==
    LET missing == MissingColumns(f.columns)
    IN IF missing # <<>>
       THEN [Idle EXCEPT !.shown = {"preview", "error"}, !.missing_columns = missing]
       ELSE LET cleaned == Clean(f.rows)
                d == AddMonth(cleaned)
                agg == ProductStatsAgg(d)
            IN [shown |-> {"preview", "count", "amount", "trend", "stats"},
                missing_columns |-> missing,
                df |-> d,
                product_count |-> ProductCount(cleaned),
                product_amount |-> ProductAmount(cleaned),
                monthly_summary |-> MonthlySummary(d),
                total_loans_disbursed |-> TotalLoansDisbursed(agg),
                product_stats |-> ProductStats(agg)]

Render(out) ==
    /\ shown' = out.shown
    /\ missing_columns' = out.missing_columns
    /\ df' = out.df
    /\ product_count' = out.product_count
    /\ product_amount' = out.product_amount
    /\ monthly_summary' = out.monthly_summary
    /\ total_loans_disbursed' = out.total_loans_disbursed
    /\ product_stats' = out.product_stats

(* ------------------------------- inputs -------------------------------- *)
Required == Range(required_columns)
Header == Required \cup {"loan_type"}

L1 == <<"5", "0">>
Jan2024 == <<15, 1, 2024>>
Dec2023 == <<1, 12, 2023>>
BadDate == <<30, 2, 2024>>

Row(id, amount, date, type) ==
    [Loan_ID |-> id, Loan_Amount |-> amount, Date_Granted |-> date, Loan_Type |-> type]

\* representative rows: identifier x amount x type on one date; amount x date
\* on one type; further spellings of the type
RawRows ==
    {Row(id, a, Jan2024, t) :
        id \in {L1, <<>>}, a \in {<<"5">>, <<"-", "5">>, <<"x">>},
        t \in {<<"A">>, <<" ", "a">>, <<>>}}
    \cup {Row(L1, a, dt, <<"A">>) :
        a \in {<<"5">>, <<"-", "5">>, <<"x">>}, dt \in {Dec2023, BadDate}}
    \cup {Row(L1, <<"5">>, Jan2024, t) :
        t \in {<<"a", " ">>, <<" ">>, <<"B">>, <<"A", " ", "b">>}}

RECURSIVE SeqsUpTo(_, _)
SeqsUpTo(S, n) ==
    IF n = 0 THEN {<<>>}
    ELSE LET shorter == SeqsUpTo(S, n - 1)
         IN shorter \cup {Append(s, x) : s \in {t \in shorter : Len(t) = n - 1}, x \in S}

SampleCell(c) ==
    CASE c = "Date_Granted" -> Jan2024
      [] c = "Loan_Amount" -> <<"5">>
      [] c = "Loan_ID" -> L1
      [] OTHER -> <<"A">>

\* files with exactly the four required columns
CompleteFiles == {[columns |-> Required, rows |-> rs] : rs \in SeqsUpTo(RawRows, MaxRows)}

\* files whose header is some other non-empty set of names, with no or one row
OtherFiles ==
    {[columns |-> cs, rows |-> rs] :
        cs \in (SUBSET Header) \ {{}, Required},
        rs \in {<<>>}} \cup
    {[columns |-> cs, rows |-> <<[c \in cs |-> SampleCell(c)]>>] :
        cs \in (SUBSET Header) \ {{}, Required}}

Files == CompleteFiles \cup OtherFiles

\* the files of a longer session: three that load (one of them without rows,
\* two sharing a loan type), two whose header lacks a required name
SessionFiles ==
    {[columns |-> Required, rows |-> <<>>],
     [columns |-> Required, rows |-> <<Row(L1, <<"5">>, Jan2024, <<"A">>)>>],
     [columns |-> Required,
      rows |-> <<Row(L1, <<"5">>, Dec2023, <<"B">>), Row(<<>>, <<"x">>, BadDate, <<" ", "a">>)>>],
     [columns |-> {"Loan_ID", "Loan_Amount", "Date_Granted", "loan_type"},
      rows |-> <<[c \in {"Loan_ID", "Loan_Amount", "Date_Granted", "loan_type"} |->
                    SampleCell(c)]>>],
     [columns |-> {"Loan_ID"}, rows |-> <<>>]}

(* ------------------------------- actions ------------------------------- *)
\* disk is the set of CSV files the user can pick in the uploader; log is a
\* history variable: the file and the outputs of every execution that had a
\* file, in order.  The script neither reads nor writes either of them.
Outputs ==
    [shown |-> shown, missing_columns |-> missing_columns, df |-> df,
     product_count |-> product_count, product_amount |-> product_amount,
     monthly_summary |-> monthly_summary,
     total_loans_disbursed |-> total_loans_disbursed, product_stats |-> product_stats]

InitCommon ==
    /\ uploaded_file = <<>>
    /\ shown = {}
    /\ missing_columns = <<>>
    /\ df = <<>>
    /\ product_count = <<>>
    /\ product_amount = <<>>
    /\ monthly_summary = <<>>
    /\ total_loans_disbursed = 0
    /\ product_stats = <<>>
    /\ log = <<>>

\* the user holds one CSV file
Init == disk \in {{f} : f \in Files} /\ InitCommon

\* the user holds several CSV files
InitSession == disk = SessionFiles /\ InitCommon

\* the user uploads f (or uploads it again): the script runs with it
RunWithFile(f) ==
    /\ Len(log) < MaxRuns
    /\ uploaded_file' = <<f>>
    /\ Render(Script(f))
    /\ log' = Append(log, [file |-> f, out |-> Script(f)])
    /\ UNCHANGED disk

\* the user removes the file: the script runs with uploaded_file = None
RunWithoutFile ==
    /\ uploaded_file' = <<>>
    /\ Render(Idle)
    /\ UNCHANGED <<disk, log>>

Next == (\E f \in disk : RunWithFile(f)) \/ RunWithoutFile

Spec == Init /\ [][Next]_vars

SpecSession == InitSession /\ [][Next]_vars

(* ======================================================================= *)
(*                                 claims                                  *)
(* ======================================================================= *)
HasFile == uploaded_file # <<>>
File == uploaded_file[1]
Ran == "stats" \in shown
Aggregations == {"count", "amount", "trend", "stats"}
NoTables ==
    /\ df = <<>> /\ product_count = <<>> /\ product_amount = <<>>
    /\ monthly_summary = <<>> /\ product_stats = <<>>
Keys(table) == [i \in DOMAIN table |-> table[i].Loan_Type]
NoDuplicates(s) == \A i, j \in DOMAIN s : s[i] = s[j] => i = j

\* C1: after a run on an uploaded file, missing_columns lists exactly the
\* required names absent from the header (each once); if any is absent, only the
\* preview and the error are shown and no cleaned data or aggregation exists;
\* if none is absent, missing_columns is empty and all four aggregations are shown.
C1_MissingColumnsHalt ==
    HasFile =>
        LET absent == Required \ File.columns
        IN /\ Range(missing_columns) = absent
           /\ Len(missing_columns) = Cardinality(absent)
           /\ absent # {} => shown = {"preview", "error"} /\ NoTables
           /\ absent = {} => /\ missing_columns = <<>>
                             /\ "error" \notin shown
                             /\ Aggregations \subseteq shown
                             /\ Len(df) = Len(File.rows)

\* C1 witness: a file with a row, lacking two required columns (one of them
\* present only in lower case), was processed and reported
C1_Witness ==
    /\ HasFile
    /\ File.columns = {"Loan_ID", "Date_Granted", "loan_type"}
    /\ Len(File.rows) = 1
    /\ missing_columns = <<"Loan_Amount", "Loan_Type">>
    /\ "error" \in shown

PctZero == [kind |-> "num", neg |-> FALSE, hundredths |-> 0]

\* C2: whenever the grand total amount is zero, the portfolio percentage of
\* every loan type in the summary statistics is 0.00%.
C2_ZeroTotalGivesZeroPct ==
    (Ran /\ total_loans_disbursed = 0) =>
        \A i \in DOMAIN product_stats : product_stats[i].Portfolio_Percentage = PctZero

\* C3: the per-type counts of the count report add up to the number of rows of
\* the cleaned dataset.
C3_CountsSumToRows ==
    Ran => SumSeq([i \in DOMAIN product_count |-> product_count[i].Count]) = Len(df)

\* C4: the keys of the count report and of the amount report are exactly the
\* distinct normalized loan types of the cleaned dataset, each once.
C4_KeysAreDistinctTypes ==
    Ran =>
        LET types == {df[i]["Loan_Type"] : i \in DOMAIN df}
        IN /\ Range(Keys(product_count)) = types
           /\ NoDuplicates(Keys(product_count))
           /\ Range(Keys(product_amount)) = types
           /\ NoDuplicates(Keys(product_amount))

\* C4 witness: two rows whose types are spelt differently but normalize to one
\* key, reported as a single row
C4_Witness ==
    /\ Ran
    /\ Len(df) = 2
    /\ File.rows[1].Loan_Type # File.rows[2].Loan_Type
    /\ Len(product_count) = 1
    /\ Len(product_amount) = 1

Unparseable == {<<>>, <<"x">>}

\* C5: cleaning keeps every row, in order, with its Loan_ID; a row whose date or
\* amount cannot be parsed is kept with a null date or amount 0; and every file
\* with the four required columns gets all four aggregations, whatever its cells.
C5_CleaningKeepsRows ==
    (HasFile /\ Required \subseteq File.columns) =>
        /\ Aggregations \subseteq shown
        /\ Len(df) = Len(File.rows)
        /\ \A i \in DOMAIN df :
              /\ df[i]["Loan_ID"] = File.rows[i].Loan_ID
              /\ File.rows[i].Date_Granted = BadDate => df[i]["Date_Granted"] = NaT
              /\ File.rows[i].Loan_Amount \in Unparseable => df[i]["Loan_Amount"] = Num(0)

\* C5 witness: a row with an impossible date and a non-numeric amount came
\* through cleaning
C5_Witness ==
    /\ Ran
    /\ \E i \in DOMAIN df :
          /\ File.rows[i].Date_Granted = BadDate
          /\ File.rows[i].Loan_Amount = <<"x">>
          /\ df[i]["Date_Granted"] = NaT
          /\ df[i]["Loan_Amount"] = Num(0)

Dated == {i \in DOMAIN df : df[i]["Date_Granted"] # NaT}
MonthLabel(d) == <<d[1], d[2] \div 10, d[2] % 10>>
LabelBefore(a, b) ==
    a[1] < b[1] \/ (a[1] = b[1] /\ a[2] * 10 + a[3] < b[2] * 10 + b[3])
\* the cleaned amounts of the rows with index in I, added up
RECURSIVE SumOver(_)
SumOver(I) ==
    IF I = {} THEN 0
    ELSE LET i == CHOOSE x \in I : TRUE IN df[i]["Loan_Amount"].v + SumOver(I \ {i})

C7_AmountsNonNegative ==
    \A i \in DOMAIN df : ~df[i]["Loan_Amount"].nan /\ df[i]["Loan_Amount"].v >= 0

\* C7 (amended): after cleaning every amount is a number, never null or NaN; an
\* empty or non-numeric cell becomes 0 and a numeric cell keeps its parsed value,
\* negative values included.
C7_AmountsAreNumbers ==
    \A i \in DOMAIN df :
        LET raw == File.rows[i].Loan_Amount
            v == df[i]["Loan_Amount"]
        IN /\ ~v.nan
           /\ raw \in Unparseable => v.v = 0
           /\ raw = <<"5">> => v.v = 5
           /\ raw = <<"-", "5">> => v.v = -5

\* C7 witness: one non-numeric and one negative amount were cleaned
C7_Witness ==
    /\ Ran
    /\ Len(df) = 2
    /\ File.rows[1].Loan_Amount = <<"x">> /\ df[1]["Loan_Amount"] = Num(0)
    /\ File.rows[2].Loan_Amount = <<"-", "5">> /\ df[2]["Loan_Amount"] = Num(-5)

\* C8: the amount report and the summary statistics carry the same loan types
\* with the same total per type, and the amount report's totals add up to the
\* grand total used as the portfolio-percentage denominator.
C8_AmountReportMatchesSummary ==
    Ran =>
        /\ SumSeq([k \in DOMAIN product_amount |-> product_amount[k].Total_Amount])
              = total_loans_disbursed
        /\ Range(Keys(product_amount)) = Range(Keys(product_stats))
        /\ Len(product_amount) = Len(product_stats)
        /\ \A j \in DOMAIN product_amount, k \in DOMAIN product_stats :
              product_amount[j].Loan_Type = product_stats[k].Loan_Type =>
                 product_stats[k].Total_Amount = Fmt2f(product_amount[j].Total_Amount, 1)

\* C8 witness: two loan types, one with a positive and one with a negative total
C8_Witness ==
    /\ Ran
    /\ Len(product_amount) = 2
    /\ product_amount[1].Total_Amount = 5
    /\ product_amount[2].Total_Amount = -5
    /\ total_loans_disbursed = 0

HasEdgeSpace(s) == s # <<>> /\ (IsSpace(s[1]) \/ IsSpace(s[Len(s)]))
SameLetter(x, y) ==
    x = y \/ <<x, y>> \in {<<"A", "a">>, <<"a", "A">>, <<"B", "b">>, <<"b", "B">>}
\* a and b are one core text in two letter cases, each inside its own run of
\* leading and trailing whitespace
SameModuloCaseAndSpace(a, b) ==
    \E la \in 0..Len(a), ra \in 0..Len(a), lb \in 0..Len(b), rb \in 0..Len(b) :
        /\ la + ra <= Len(a) /\ lb + rb <= Len(b)
        /\ Len(a) - la - ra = Len(b) - lb - rb
        /\ \A i \in 1..la : IsSpace(a[i])
        /\ \A i \in (Len(a) - ra + 1)..Len(a) : IsSpace(a[i])
        /\ \A i \in 1..lb : IsSpace(b[i])
        /\ \A i \in (Len(b) - rb + 1)..Len(b) : IsSpace(b[i])
        /\ \A i \in 1..(Len(a) - la - ra) : SameLetter(a[la + i], b[lb + i])
RowsWithKey(table, k) == Cardinality({i \in DOMAIN table : table[i].Loan_Type = k})

\* C10: every cleaned Loan_Type has no leading or trailing whitespace and no
\* upper-case letter, stripping and lower-casing it again changes nothing, and
\* two rows whose raw types differ only in letter case and leading/trailing
\* whitespace get the same key and share one row of each per-type report.
C10_StableGroupingKeys ==
    Ran =>
        /\ \A i \in DOMAIN df :
              LET k == df[i]["Loan_Type"]
              IN /\ ~HasEdgeSpace(k)
                 /\ \A n \in DOMAIN k : ~IsUpper(k[n])
                 /\ Lower(Strip(k)) = k
        /\ \A i, j \in DOMAIN df :
              SameModuloCaseAndSpace(File.rows[i].Loan_Type, File.rows[j].Loan_Type) =>
                 /\ df[i]["Loan_Type"] = df[j]["Loan_Type"]
                 /\ RowsWithKey(product_count, df[i]["Loan_Type"]) = 1
                 /\ RowsWithKey(product_amount, df[i]["Loan_Type"]) = 1
                 /\ RowsWithKey(product_stats, df[i]["Loan_Type"]) = 1

====
